---- MODULE Spec2Model ----
(***************************************************************************)
(* Model of igwas: the online sufficient-statistics aggregator             *)
(* (src/src/stats/running.rs, RunningSufficientStats) and the windowed,    *)
(* multi-threaded pipeline that drives it (src/src/util.rs, run and        *)
(* process_chunk).                                                         *)
(*                                                                         *)
(* The specifications share the variables (FairSpec is Spec with every     *)
(* thread scheduled fairly):                                               *)
(*   Spec     the pipeline: run's window loop, process_chunk's reader and  *)
(*            worker threads, the channel, the mutex and the output file;  *)
(*   SpecAgg  the aggregator's public methods (clear_chunk, update,        *)
(*            compute_final_stats) called in any order on one instance,    *)
(*            with a clone of it replaying the same chunks in another      *)
(*            order.                                                       *)
(***************************************************************************)
EXTENDS Integers, Sequences, FiniteSets

(***************************************************************************)
(* Bounds of the model.                                                    *)
(***************************************************************************)
MaxLines == 3        \* num_lines ranges over 0..MaxLines
MaxWindow == 2       \* runtime_config.chunksize ranges over 1..MaxWindow
MaxThreads == 2      \* runtime_config.num_threads ranges over 1..MaxThreads
MaxFeatures == 3     \* number of phenotypes ranges over 1..MaxFeatures
NumProjections == 2  \* columns of the projection matrix
NumCovar == 1        \* num_covar
MaxFinalizes == 2    \* SpecAgg: compute_final_stats calls that return
                     \* between two clear_chunk calls

(***************************************************************************)
(* f32 arithmetic.  A non-negative finite f32 is [m, e] with value m * 2^e *)
(* and 2^23 <= m < 2^24 (m = 0, e = 0 for zero).  Addition and division by *)
(* a small integer round to nearest, ties to even, as IEEE 754 does; the   *)
(* inputs of the model are non-negative, far from overflow and underflow.  *)
(***************************************************************************)
F32_MANTISSA_DIGITS == 24

Pow2(k) == IF k <= 0 THEN 1 ELSE 2 ^ k

RECURSIVE BitLen(_)
BitLen(x) == IF x <= 0 THEN 0 ELSE 1 + BitLen(x \div 2)

F32Zero == [m |-> 0, e |-> 0]

\* x shifted right by d bits, the bits shifted out OR-ed into the lowest bit.
ShiftRightSticky(x, d) ==
    IF d >= 30 THEN (IF x = 0 THEN 0 ELSE 1)
    ELSE LET q == x \div Pow2(d)
             r == x % Pow2(d)
         IN  IF r # 0 /\ q % 2 = 0 THEN q + 1 ELSE q

\* The f32 nearest to x * 2^e, for an integer x of more than 24 bits whose
\* lowest bit is sticky.
RoundNearestEven(x, e) ==
    IF x = 0 THEN F32Zero
    ELSE LET k    == (IF x >= Pow2(F32_MANTISSA_DIGITS + 2) /\ x < Pow2(F32_MANTISSA_DIGITS + 3)
                      THEN 3
                      ELSE IF x >= Pow2(F32_MANTISSA_DIGITS + 3) /\ x < Pow2(F32_MANTISSA_DIGITS + 4)
                      THEN 4
                      ELSE BitLen(x) - F32_MANTISSA_DIGITS)
             q    == x \div Pow2(k)
             r    == x % Pow2(k)
             half == Pow2(k - 1)
             up   == r > half \/ (r = half /\ q % 2 = 1)
             m    == IF up THEN q + 1 ELSE q
         IN  IF m = Pow2(F32_MANTISSA_DIGITS)
             THEN [m |-> Pow2(F32_MANTISSA_DIGITS - 1), e |-> e + k + 1]
             ELSE [m |-> m, e |-> e + k]

\* a + b in f32 (three guard bits: guard, round, sticky).
F32Add(a, b) ==
    IF a.m = 0 THEN b
    ELSE IF b.m = 0 THEN a
    ELSE LET hi == IF a.e >= b.e THEN a ELSE b
             lo == IF a.e >= b.e THEN b ELSE a
             s  == hi.m * 8 + ShiftRightSticky(lo.m * 8, hi.e - lo.e)
         IN  RoundNearestEven(s, hi.e - 3)

\* a / (n as f32) in f32, for a small positive integer n.
F32Div(a, n) ==
    IF a.m = 0 THEN F32Zero
    ELSE LET x == a.m * 64
             q == x \div n
             r == x % n
             s == IF r # 0 /\ q % 2 = 0 THEN q + 1 ELSE q
         IN  RoundNearestEven(s, a.e - 6)

\* The f32 of a positive integer below 2^24 (exact).
F32Of(i) ==
    IF i = 0 THEN F32Zero
    ELSE LET k == F32_MANTISSA_DIGITS - BitLen(i)
         IN  [m |-> i * Pow2(k), e |-> 0 - k]

\* 2^24 as f32: the first binade where the spacing of f32 values is 2.
F32Big == [m |-> Pow2(F32_MANTISSA_DIGITS - 1), e |-> 1]

(***************************************************************************)
(* Vectors and matrices (nalgebra DVector / DMatrix) as sequences; a       *)
(* matrix is the sequence of its rows.                                     *)
(***************************************************************************)
Min(a, b) == IF a <= b THEN a ELSE b

ZerosVec(n, z) == [i \in 1..n |-> z]

ZerosMat(n, p, z) == [i \in 1..n |-> [j \in 1..p |-> z]]

NRows(mat) == Len(mat)

\* DVector::inf: the elementwise minimum.
VecInf(u, v) == [i \in 1..Len(u) |-> Min(u[i], v[i])]

VecAdd(u, v) == [i \in 1..Len(u) |-> F32Add(u[i], v[i])]

MatAdd(a, b) == [i \in 1..Len(a) |-> [j \in 1..Len(a[i]) |-> F32Add(a[i][j], b[i][j])]]

VecDiv(u, n) == [i \in 1..Len(u) |-> F32Div(u[i], n)]

\* Option<T>: None is the empty sequence, Some(x) the sequence <<x>>.
None == << >>

Some(x) == << x >>

(***************************************************************************)
(* Inputs.  The projection and covariance matrices hold small integers     *)
(* (exact in f32).  A phenotype's source file is described by a profile:   *)
(* whether its variant ids are the shared ones (a file of the other kind   *)
(* agrees on its first line and differs from the second on), how its       *)
(* sample sizes run over the rows, and the size of its partial sums.       *)
(***************************************************************************)
\* LabeledMatrix of the projection: n_features x NumProjections.
ProjectionMatrix(nf) ==
    [matrix     |-> [i \in 1..nf |-> [j \in 1..NumProjections |-> i + j - 1]],
     row_labels |-> [i \in 1..nf |-> i],
     col_labels |-> [j \in 1..NumProjections |-> j]]

\* LabeledMatrix of the covariance: n_features x n_features, symmetric.
CovarianceMatrix(nf) ==
    [matrix     |-> [i \in 1..nf |-> [k \in 1..nf |-> IF i = k THEN 2 ELSE 1]],
     row_labels |-> [i \in 1..nf |-> i],
     col_labels |-> [i \in 1..nf |-> i]]

Profiles ==
    { [ids |-> "shared", ss |-> "asc",  val |-> "one"],
      [ids |-> "shared", ss |-> "desc", val |-> "one"],
      [ids |-> "shared", ss |-> "asc",  val |-> "big"],
      [ids |-> "other",  ss |-> "desc", val |-> "one"] }

\* The variant id, sample size and partial sums of row r (0-based line
\* number) of a source file with profile f.
RowVariantId(f, r) == IF f.ids = "shared" \/ r = 0 THEN r ELSE r + 1000

RowSampleSize(f, r) == IF f.ss = "asc" THEN 10 + 2 * r ELSE 13 - 2 * r

RowValue(f) == IF f.val = "one" THEN F32Of(1) ELSE F32Big

\* The contribution of row r to projection j: different for every row and
\* projection of a file with small partial sums.
RowBeta(f, r, j) == IF f.val = "one" THEN F32Of(2 * r + j) ELSE F32Big

\* io::gwas::read_gwas_results followed by the conversion to
\* IntermediateResults: lines [start_line, end_line) of one phenotype.
ReadGwasResults(f, start, end) ==
    [variant_ids  |-> [i \in 1..(end - start) |-> RowVariantId(f, start + i - 1)],
     sample_sizes |-> [i \in 1..(end - start) |-> RowSampleSize(f, start + i - 1)],
     beta_update  |-> [i \in 1..(end - start) |->
                         [j \in 1..NumProjections |-> RowBeta(f, start + i - 1, j)]],
     gpv_update   |-> [i \in 1..(end - start) |-> RowValue(f)]]

(***************************************************************************)
(* RunningSufficientStats.                                                 *)
(***************************************************************************)
\* RunningSufficientStats::new
New(proj, cov, n_covar, chunksize) ==
    [beta                |-> ZerosMat(chunksize, Len(proj.col_labels), F32Zero),
     gpv                 |-> ZerosVec(chunksize, F32Zero),
     sample_sizes        |-> ZerosVec(chunksize, 0),
     cov                 |-> cov.matrix,
     fpv                 |-> [i \in 1..Len(cov.matrix) |-> cov.matrix[i][i]],
     proj                |-> proj.matrix,
     n_covar             |-> n_covar,
     n_features          |-> Len(proj.matrix),
     n_projections       |-> Len(proj.col_labels),
     chunksize           |-> chunksize,
     phenotype_id_to_idx |-> [i \in 1..Len(proj.row_labels) |-> i - 1],
     variant_ids         |-> None,
     projection_ids      |-> proj.col_labels,
     n_features_seen     |-> 0]

\* A faulty variant of clear_chunk's test that reallocates on every call.
ClearChunkResizesAlways(self, new_chunksize) == TRUE

\* Whether clear_chunk(new_chunksize) takes the branch that reallocates.
ClearChunkResizes(self, new_chunksize) == new_chunksize # self.chunksize

\* A faulty variant of clear_chunk that forgets to reset the seen counter.
ClearChunkKeepsSeen(self, new_chunksize) ==
    IF ClearChunkResizes(self, new_chunksize)
    THEN [self EXCEPT !.beta = ZerosMat(new_chunksize, self.n_projections, F32Zero),
                      !.gpv = ZerosVec(new_chunksize, F32Zero),
                      !.sample_sizes = ZerosVec(new_chunksize, 0),
                      !.chunksize = new_chunksize]
    ELSE [self EXCEPT !.beta = ZerosMat(Len(self.beta), self.n_projections, F32Zero),
                      !.gpv = ZerosVec(Len(self.gpv), F32Zero),
                      !.sample_sizes = ZerosVec(Len(self.sample_sizes), 0)]

\* A faulty variant of clear_chunk whose fill branch leaves gpv as it is.
ClearChunkFillKeepsGpv(self, new_chunksize) ==
    IF ClearChunkResizes(self, new_chunksize)
    THEN [self EXCEPT !.beta = ZerosMat(new_chunksize, self.n_projections, F32Zero),
                      !.gpv = ZerosVec(new_chunksize, F32Zero),
                      !.sample_sizes = ZerosVec(new_chunksize, 0),
                      !.chunksize = new_chunksize,
                      !.n_features_seen = 0]
    ELSE [self EXCEPT !.beta = ZerosMat(Len(self.beta), self.n_projections, F32Zero),
                      !.sample_sizes = ZerosVec(Len(self.sample_sizes), 0),
                      !.n_features_seen = 0]

\* RunningSufficientStats::clear_chunk
ClearChunk(self, new_chunksize) ==
    IF ClearChunkResizes(self, new_chunksize)
    THEN [self EXCEPT !.beta = ZerosMat(new_chunksize, self.n_projections, F32Zero),
                      !.gpv = ZerosVec(new_chunksize, F32Zero),
                      !.sample_sizes = ZerosVec(new_chunksize, 0),
                      !.chunksize = new_chunksize,
                      !.n_features_seen = 0]
    ELSE [self EXCEPT !.beta = ZerosMat(Len(self.beta), self.n_projections, F32Zero),
                      !.gpv = ZerosVec(Len(self.gpv), F32Zero),
                      !.sample_sizes = ZerosVec(Len(self.sample_sizes), 0),
                      !.n_features_seen = 0]

\* A faulty variant of update that takes the minimum on the first call too (with
\* the zeros clear_chunk left).
UpdateMinFromZero(self, gwas_results) ==
    LET s == [self EXCEPT !.sample_sizes = VecInf(self.sample_sizes, gwas_results.sample_sizes),
                          !.variant_ids = Some(gwas_results.variant_ids)]
    IN  [state |-> [s EXCEPT !.beta = MatAdd(s.beta, gwas_results.beta_update),
                             !.gpv = VecAdd(s.gpv, gwas_results.gpv_update),
                             !.n_features_seen = s.n_features_seen + 1],
         panic |-> ""]

\* A faulty variant of update without the comparison of the variant ids.
UpdateWithoutIdCheck(self, gwas_results) ==
    LET first == self.n_features_seen = 0
        s1 == IF first
              THEN [self EXCEPT !.sample_sizes = gwas_results.sample_sizes,
                                !.variant_ids = Some(gwas_results.variant_ids)]
              ELSE [self EXCEPT !.sample_sizes =
                                    VecInf(self.sample_sizes, gwas_results.sample_sizes)]
    IN  [state |-> [s1 EXCEPT !.beta = MatAdd(s1.beta, gwas_results.beta_update),
                              !.gpv = VecAdd(s1.gpv, gwas_results.gpv_update),
                              !.n_features_seen = s1.n_features_seen + 1],
         panic |-> ""]

\* RunningSufficientStats::update.  The result is the aggregator after the
\* call and the panic message ("" when the call returns): assert_eq! panics
\* after the assignment to sample_sizes and before the additions.
Update(self, gwas_results) ==
    LET first == self.n_features_seen = 0
        s1 == IF first
              THEN [self EXCEPT !.sample_sizes = gwas_results.sample_sizes,
                                !.variant_ids = Some(gwas_results.variant_ids)]
              ELSE [self EXCEPT !.sample_sizes =
                                    VecInf(self.sample_sizes, gwas_results.sample_sizes)]
        mismatch == ~first /\ self.variant_ids # Some(gwas_results.variant_ids)
    IN  IF mismatch
        THEN [state |-> s1, panic |-> "Mismatched variant ids"]
        ELSE [state |-> [s1 EXCEPT !.beta = MatAdd(s1.beta, gwas_results.beta_update),
                                   !.gpv = VecAdd(s1.gpv, gwas_results.gpv_update),
                                   !.n_features_seen = s1.n_features_seen + 1],
              panic |-> ""]

\* ppv: the diagonal of proj^T * cov * proj (small integers, exact in f32).
RECURSIVE SumTo(_, _)
SumTo(f, n) == IF n = 0 THEN 0 ELSE f[n] + SumTo(f, n - 1)

Ppv(self, j) ==
    LET nf == Len(self.proj)
        inner(i) == SumTo([k \in 1..nf |-> self.cov[i][k] * self.proj[k][j]], nf)
    IN  SumTo([i \in 1..nf |-> self.proj[i][j] * inner(i)], nf)

\* A faulty variant of the flattening that walks the matrix row by row.
ReshapeRowOfRowMajor(r, nrows, ncols) == ((r - 1) \div ncols) + 1

\* reshape_generic(Dyn(n_elements), Const::<1>) of an nrows x ncols matrix,
\* which nalgebra stores column by column: the row and the column (1-based)
\* of the matrix entry that becomes element r (1-based) of the vector.
ReshapeRow(r, nrows, ncols) == ((r - 1) % nrows) + 1

ReshapeCol(r, nrows, ncols) == ((r - 1) \div nrows) + 1

\* The columns of IGwasResults computed from the aggregator once gpv has been
\* normalised.  se, t_stat and the p-value (sqrt, a division and the
\* collaborator compute_neg_log_pvalue) are kept as terms over their
\* arguments.  Flattening is column-major: element r (0-based) of a reshaped
\* matrix is its entry (r mod nrows, r div nrows).
FinalColumns(s) ==
    LET nrows      == NRows(s.beta)
        n_elements == nrows * s.n_projections
        dof(i)     == s.sample_sizes[i] - 2 - s.n_covar
        row(r)     == ReshapeRow(r, nrows, s.n_projections)
        col(r)     == ReshapeCol(r, nrows, s.n_projections)
        se(r)      == <<"se", Ppv(s, col(r)), s.gpv[row(r)], s.beta[row(r)][col(r)], dof(row(r))>>
        t_stat(r)  == <<"t", s.beta[row(r)][col(r)], se(r)>>
        ids        == s.variant_ids[1]
    IN  [projection_ids |-> [r \in 1..(Len(s.projection_ids) * s.chunksize) |->
                                s.projection_ids[((r - 1) \div s.chunksize) + 1]],
         variant_ids    |-> [r \in 1..(s.n_projections * Len(ids)) |->
                                ids[((r - 1) % Len(ids)) + 1]],
         beta_values    |-> [r \in 1..n_elements |-> s.beta[row(r)][col(r)]],
         se_values      |-> [r \in 1..n_elements |-> se(r)],
         t_stat_values  |-> [r \in 1..n_elements |-> t_stat(r)],
         p_values       |-> [r \in 1..n_elements |-> <<"p", t_stat(r), dof(row(r))>>],
         sample_sizes   |-> [r \in 1..n_elements |->
                                s.sample_sizes[((r - 1) % Len(s.sample_sizes)) + 1]]]

\* A faulty variant of compute_final_stats whose guard only rejects too few
\* phenotypes.
ComputeFinalStatsAtLeast(self) ==
    IF self.n_features_seen < self.n_features
    THEN [state |-> self, panic |-> "Too few features seen", result |-> None]
    ELSE LET s == [self EXCEPT !.gpv = VecDiv(self.gpv, self.n_features_seen)]
         IN  [state |-> s, panic |-> "", result |-> Some(FinalColumns(s))]

\* RunningSufficientStats::compute_final_stats.  The result is the
\* aggregator after the call, the panic message and the returned
\* IGwasResults (None when the call panics).
ComputeFinalStats(self) ==
    IF self.n_features_seen # self.n_features
    THEN [state |-> self, panic |-> "Too few features seen", result |-> None]
    ELSE LET s == [self EXCEPT !.gpv = VecDiv(self.gpv, self.n_features_seen)]
         IN  [state |-> s, panic |-> "", result |-> Some(FinalColumns(s))]

(***************************************************************************)
(* State.                                                                  *)
(***************************************************************************)
VARIABLES
    num_lines,    \* io::gwas::count_lines of the first source file
    chunksize,    \* runtime_config.chunksize
    num_threads,  \* runtime_config.num_threads
    files,        \* gwas_result_files: the profile of each phenotype's source
    pc,           \* where the main thread is in run / process_chunk
    start_line,   \* run's start_line
    end_line,     \* run's end_line
    joined,       \* how many workers process_chunk has joined
    queue,        \* the crossbeam channel's buffered messages
    senders,      \* the live Sender handles of the channel
    reader,       \* the reader thread: its state and the next file's index
    workers,      \* the worker threads: state and the message each holds
    running,      \* the RunningSufficientStats inside the Mutex
    poisoned,     \* whether the Mutex is poisoned
    output,       \* the calls of write_gwas_results so far
    applied,      \* history: update calls returned per phenotype, this window
    windows,      \* history: the [start, end, cleared] of each window started
    resizes,      \* history: clear_chunk calls that took the resize branch
    finalizes,    \* history: compute_final_stats calls that returned (in
                  \* SpecAgg: since the last clear_chunk)
    other,        \* SpecAgg: a clone of the aggregator replaying its chunks
    contrib,      \* SpecAgg: per profile, the chunks applied since clear_chunk
    used,         \* SpecAgg: per profile, the chunks replayed on other
    last,         \* SpecAgg: the last call: its name, argument (the row
                  \* count given to clear_chunk), panic and result
    phase         \* SpecAgg: "constructed" or "cleared" while only updates that
                  \* returned followed new or clear_chunk, "used" after
                  \* any other call

configVars == <<num_lines, chunksize, num_threads, files>>

mainVars == <<pc, start_line, end_line, joined>>

threadVars == <<queue, senders, reader, workers>>

historyVars == <<applied, windows, resizes, finalizes>>

pipelineVars == <<configVars, mainVars, threadVars, poisoned, output, historyVars>>

harnessVars == <<other, contrib, used, last, phase>>

vars == <<pipelineVars, running, harnessVars>>

NoCall == [op |-> "none", arg |-> 0, panic |-> "", result |-> None]

EmptyBag == [f \in Profiles |-> 0]

(***************************************************************************)
(* SpecAgg: the aggregator's methods called in any order.                  *)
(***************************************************************************)
InitAgg ==
    /\ \E nf \in 1..MaxFeatures :
          /\ running = New(ProjectionMatrix(nf), CovarianceMatrix(nf), NumCovar, MaxWindow)
          /\ other = running
          /\ chunksize = MaxWindow
          /\ files = [i \in 1..nf |-> CHOOSE f \in Profiles : f.ids = "shared" /\ f.ss = "asc" /\ f.val = "one"]
    /\ num_lines = 0
    /\ num_threads = 1
    /\ pc = "api"
    /\ start_line = 0
    /\ end_line = 0
    /\ joined = 0
    /\ queue = << >>
    /\ senders = {}
    /\ reader = [state |-> "none", next |-> 1]
    /\ workers = [w \in 1..1 |-> [state |-> "none", item |-> None]]
    /\ poisoned = FALSE
    /\ output = << >>
    /\ applied = [i \in 1..Len(files) |-> 0]
    /\ windows = << >>
    /\ resizes = 0
    /\ finalizes = 0
    /\ contrib = EmptyBag
    /\ used = EmptyBag
    /\ last = NoCall
    /\ phase = "constructed"

\* clear_chunk(n); the second instance becomes a clone of the cleared one.
ApiClearChunk(n) ==
    /\ pc = "api"
    /\ running' = ClearChunk(running, n)
    /\ other' = ClearChunk(running, n)
    /\ contrib' = EmptyBag
    /\ used' = EmptyBag
    /\ phase' = "cleared"
    /\ last' = [op |-> "clear_chunk", arg |-> n, panic |-> "", result |-> None]
    /\ finalizes' = 0
    /\ UNCHANGED <<configVars, mainVars, threadVars, poisoned, output,
                   applied, windows, resizes>>

\* update with the chunk read from a source of profile f, of the window's
\* row count.
ApiUpdate(f) ==
    /\ pc = "api"
    /\ running.n_features_seen <= running.n_features
    /\ LET r == Update(running, ReadGwasResults(f, 0, NRows(running.beta)))
       IN  /\ running' = r.state
           /\ contrib' = IF r.panic = "" THEN [contrib EXCEPT ![f] = @ + 1] ELSE contrib
           /\ phase' = IF r.panic = "" THEN phase ELSE "used"
           /\ last' = [op |-> "update", arg |-> 0, panic |-> r.panic, result |-> None]
    /\ UNCHANGED <<pipelineVars, other, used>>

\* compute_final_stats.
ApiComputeFinalStats ==
    /\ pc = "api"
    /\ finalizes < MaxFinalizes
    /\ LET r == ComputeFinalStats(running)
       IN  /\ running' = r.state
           /\ finalizes' = IF r.panic = "" THEN finalizes + 1 ELSE finalizes
           /\ last' = [op |-> "compute_final_stats", arg |-> 0, panic |-> r.panic,
                       result |-> r.result]
    /\ phase' = "used"
    /\ UNCHANGED <<configVars, mainVars, threadVars, poisoned, output,
                   applied, windows, resizes, other, contrib, used>>

\* update on the clone with one of the chunks the first instance accepted
\* since the clear_chunk both started from, in any order.
ReplayUpdate(f) ==
    /\ pc = "api"
    /\ phase = "cleared"
    /\ used[f] < contrib[f]
    /\ other' = Update(other, ReadGwasResults(f, 0, NRows(other.beta))).state
    /\ used' = [used EXCEPT ![f] = @ + 1]
    /\ UNCHANGED <<pipelineVars, running, contrib, last, phase>>

NextAgg ==
    \/ \E n \in 1..MaxWindow : ApiClearChunk(n)
    \/ \E f \in Profiles : ApiUpdate(f)
    \/ ApiComputeFinalStats
    \/ \E f \in Profiles : ReplayUpdate(f)

SpecAgg == InitAgg /\ [][NextAgg]_vars

(***************************************************************************)
(* Spec: the pipeline.  The source files all hold num_lines lines, so every *)
(* chunk read for a window has the window's row count; write_gwas_results  *)
(* succeeds.                                                               *)
(***************************************************************************)
\* The profile of phenotype i's source when nothing is special about it.
BaseProfile(i) ==
    [ids |-> "shared", ss |-> IF i % 2 = 1 THEN "asc" ELSE "desc", val |-> "one"]

\* The inputs of a run with nf phenotypes: all sources alike; the last one
\* with large partial sums; the first or the last one with other variant ids.
Scenarios(nf) ==
    { [i \in 1..nf |-> BaseProfile(i)],
      [i \in 1..nf |-> IF i = nf THEN [ids |-> "shared", ss |-> "asc", val |-> "big"]
                                 ELSE BaseProfile(i)],
      [i \in 1..nf |-> IF i = 1 THEN [ids |-> "other", ss |-> "desc", val |-> "one"]
                                ELSE BaseProfile(i)],
      [i \in 1..nf |-> IF i = nf THEN [ids |-> "other", ss |-> "desc", val |-> "one"]
                                 ELSE BaseProfile(i)] }

NoThread == [state |-> "none", item |-> None]

\* run, up to the loop: the matrices are read, the inputs reconciled
\* (check_filter_inputs keeps one source per phenotype) and the aggregator
\* constructed with runtime_config.chunksize rows.
Init ==
    /\ num_lines \in 0..MaxLines
    /\ chunksize \in 1..MaxWindow
    /\ num_threads \in 1..MaxThreads
    /\ \E nf \in 1..MaxFeatures : files \in Scenarios(nf)
    /\ running = New(ProjectionMatrix(Len(files)), CovarianceMatrix(Len(files)),
                     NumCovar, chunksize)
    /\ pc = "loop"
    /\ start_line = 0
    /\ end_line = 0
    /\ joined = 0
    /\ queue = << >>
    /\ senders = {}
    /\ reader = [state |-> "none", next |-> 1]
    /\ workers = [w \in 1..num_threads |-> NoThread]
    /\ poisoned = FALSE
    /\ output = << >>
    /\ applied = [i \in 1..Len(files) |-> 0]
    /\ windows = << >>
    /\ resizes = 0
    /\ finalizes = 0
    /\ other = running
    /\ contrib = EmptyBag
    /\ used = EmptyBag
    /\ last = NoCall
    /\ phase = "constructed"

\* A faulty variant of the window bound that is not clamped to num_lines.
WindowEndUnclamped(end, size, total) == end + size

\* A faulty variant of the window bound that does not advance from end_line.
WindowEndNoAdvance(end, size, total) == Min(total, size)

\* run: end_line = cmp::min(num_lines, end_line + runtime_config.chunksize)
WindowEnd(end, size, total) == Min(total, end + size)

\* run: the loop test, the window bounds and clear_chunk.
RunClearChunk ==
    /\ pc = "loop"
    /\ start_line < num_lines
    /\ LET end == WindowEnd(end_line, chunksize, num_lines)
           new_chunksize == end - start_line
       IN  /\ end_line' = end
           /\ running' = ClearChunk(running, new_chunksize)
           /\ resizes' = IF ClearChunkResizes(running, new_chunksize)
                         THEN resizes + 1 ELSE resizes
           /\ windows' = Append(windows, [start |-> start_line, end |-> end,
                                          cleared |-> new_chunksize])
    /\ applied' = [i \in 1..Len(files) |-> 0]
    /\ pc' = "spawn"
    /\ UNCHANGED <<configVars, start_line, joined, threadVars, poisoned, output,
                   finalizes, harnessVars>>

\* process_chunk: the channel is created, the workers and the reader are
\* spawned; the main thread keeps `sender` and `receiver`, the reader owns
\* a clone of the sender.
ProcessChunkSpawn ==
    /\ pc = "spawn"
    /\ queue' = << >>
    /\ senders' = {"main", "reader"}
    /\ workers' = [w \in 1..num_threads |-> [state |-> "recv", item |-> None]]
    /\ reader' = [state |-> "reading", next |-> 1]
    /\ joined' = 0
    /\ pc' = "join_reader"
    /\ UNCHANGED <<configVars, start_line, end_line, running, poisoned, output,
                   historyVars, harnessVars>>

\* gwas_reader: one iteration of the loop, the read succeeding: the chunk
\* of the next source is sent.
ReaderSend ==
    /\ reader.state = "reading"
    /\ reader.next <= Len(files)
    /\ queue' = Append(queue, [phenotype |-> reader.next, start |-> start_line,
                               end |-> end_line])
    /\ reader' = [reader EXCEPT !.next = @ + 1]
    /\ UNCHANGED <<configVars, mainVars, senders, workers, running, poisoned,
                   output, historyVars, harnessVars>>

\* gwas_reader: read_gwas_results fails and unwrap panics; the thread's
\* sender is dropped as it unwinds.
ReaderReadFails ==
    /\ reader.state = "reading"
    /\ reader.next <= Len(files)
    /\ reader' = [reader EXCEPT !.state = "panicked"]
    /\ senders' = senders \ {"reader"}
    /\ UNCHANGED <<configVars, mainVars, queue, workers, running, poisoned,
                   output, historyVars, harnessVars>>

\* gwas_reader: the loop is over, Ok(()) is returned and the sender dropped.
ReaderReturn ==
    /\ reader.state = "reading"
    /\ reader.next > Len(files)
    /\ reader' = [reader EXCEPT !.state = "done"]
    /\ senders' = senders \ {"reader"}
    /\ UNCHANGED <<configVars, mainVars, queue, workers, running, poisoned,
                   output, historyVars, harnessVars>>

\* A faulty variant of the receive that leaves the message in the channel.
WorkerRecvPeek(w) ==
    /\ w \in DOMAIN workers
    /\ workers[w].state = "recv"
    /\ \/ /\ queue # << >>
          /\ workers' = [workers EXCEPT ![w] = [state |-> "update", item |-> Some(Head(queue))]]
          /\ queue' = queue
       \/ /\ queue = << >>
          /\ senders = {}
          /\ workers' = [workers EXCEPT ![w] = [state |-> "done", item |-> None]]
          /\ queue' = queue
    /\ UNCHANGED <<configVars, mainVars, senders, reader, running, poisoned,
                   output, historyVars, harnessVars>>

\* A faulty variant of the receive that ends the loop as soon as every sender
\* is dropped, whatever the channel still holds.
WorkerRecvStopsOnDisconnect(w) ==
    /\ w \in DOMAIN workers
    /\ workers[w].state = "recv"
    /\ \/ /\ queue # << >>
          /\ senders # {}
          /\ workers' = [workers EXCEPT ![w] = [state |-> "update", item |-> Some(Head(queue))]]
          /\ queue' = Tail(queue)
       \/ /\ senders = {}
          /\ workers' = [workers EXCEPT ![w] = [state |-> "done", item |-> None]]
          /\ queue' = queue
    /\ UNCHANGED <<configVars, mainVars, senders, reader, running, poisoned,
                   output, historyVars, harnessVars>>

\* A worker's receiver.iter(): the next message, or the end of the loop
\* once the channel is empty and every sender is dropped.
WorkerRecv(w) ==
    /\ w \in DOMAIN workers
    /\ workers[w].state = "recv"
    /\ \/ /\ queue # << >>
          /\ workers' = [workers EXCEPT ![w] = [state |-> "update", item |-> Some(Head(queue))]]
          /\ queue' = Tail(queue)
       \/ /\ queue = << >>
          /\ senders = {}
          /\ workers' = [workers EXCEPT ![w] = [state |-> "done", item |-> None]]
          /\ queue' = queue
    /\ UNCHANGED <<configVars, mainVars, senders, reader, running, poisoned,
                   output, historyVars, harnessVars>>

\* A worker's running.lock().unwrap().update(..): the lock is held for the
\* whole call.  A panic inside update poisons the mutex; lock() on a
\* poisoned mutex makes unwrap panic.
WorkerUpdate(w) ==
    /\ w \in DOMAIN workers
    /\ workers[w].state = "update"
    /\ LET msg == workers[w].item[1]
           r   == Update(running, ReadGwasResults(files[msg.phenotype], msg.start, msg.end))
       IN  IF poisoned
           THEN /\ workers' = [workers EXCEPT ![w] = [state |-> "panicked", item |-> None]]
                /\ UNCHANGED <<running, poisoned, applied>>
           ELSE /\ running' = r.state
                /\ poisoned' = (r.panic # "")
                /\ applied' = IF r.panic = ""
                              THEN [applied EXCEPT ![msg.phenotype] = @ + 1]
                              ELSE applied
                /\ workers' = [workers EXCEPT ![w] =
                                  [state |-> IF r.panic = "" THEN "recv" ELSE "panicked",
                                   item |-> None]]
    /\ UNCHANGED <<configVars, mainVars, queue, senders, reader, output, windows,
                   resizes, finalizes, harnessVars>>

\* A faulty variant of the join's unwrap that ignores the thread's panic.
JoinUnwrapNeverPanics(state) == FALSE

\* JoinHandle::join returns Err for a thread that panicked, and unwrap on
\* it panics in the main thread.
JoinUnwrapPanics(state) == state = "panicked"

\* JoinHandle::join on the reader returns once the thread has ended.
ReaderJoinable == reader.state \in {"done", "panicked"}

\* process_chunk: reader.join().unwrap()?  A panicked reader makes unwrap
\* panic: the main thread unwinds, dropping its sender and receiver.
ProcessChunkJoinReader ==
    /\ pc = "join_reader"
    /\ ReaderJoinable
    /\ IF JoinUnwrapPanics(reader.state)
       THEN /\ pc' = "aborted"
            /\ senders' = senders \ {"main"}
       ELSE /\ pc' = "drop_sender"
            /\ senders' = senders
    /\ UNCHANGED <<configVars, start_line, end_line, joined, queue, reader, workers,
                   running, poisoned, output, historyVars, harnessVars>>

\* A faulty variant of process_chunk that goes on to join the workers without
\* dropping its sender.
ProcessChunkKeepsSender ==
    /\ pc = "drop_sender"
    /\ senders' = senders
    /\ joined' = 0
    /\ pc' = "join_workers"
    /\ UNCHANGED <<configVars, start_line, end_line, queue, reader, workers,
                   running, poisoned, output, historyVars, harnessVars>>

\* process_chunk: drop(sender)
ProcessChunkDropSender ==
    /\ pc = "drop_sender"
    /\ senders' = senders \ {"main"}
    /\ joined' = 0
    /\ pc' = "join_workers"
    /\ UNCHANGED <<configVars, start_line, end_line, queue, reader, workers,
                   running, poisoned, output, historyVars, harnessVars>>

\* A faulty variant of the workers' join that does not wait for the worker.
WorkerJoinableAlways(w) == TRUE

\* JoinHandle::join on worker w returns once the thread has ended.
WorkerJoinable(w) == workers[w].state \in {"done", "panicked"}

\* process_chunk: worker.join().unwrap() for the next worker; a panicked
\* worker makes unwrap panic.
ProcessChunkJoinWorker ==
    /\ pc = "join_workers"
    /\ joined < num_threads
    /\ WorkerJoinable(joined + 1)
    /\ IF JoinUnwrapPanics(workers[joined + 1].state)
       THEN /\ pc' = "aborted"
            /\ joined' = joined
       ELSE /\ joined' = joined + 1
            /\ pc' = IF joined + 1 = num_threads THEN "finalize" ELSE "join_workers"
    /\ UNCHANGED <<configVars, start_line, end_line, threadVars, running, poisoned,
                   output, historyVars, harnessVars>>

\* A faulty variant of the header flag that is set for every window.
IncludeHeaderAlways(start) == TRUE

\* process_chunk: include_header = start_line == 0
IncludeHeader(start) == start = 0

\* process_chunk: running.lock().unwrap().compute_final_stats() and
\* write_gwas_results(final_stats, output_file, start_line == 0).
ProcessChunkFinalize ==
    /\ pc = "finalize"
    /\ LET r == ComputeFinalStats(running)
       IN  IF poisoned \/ r.panic # ""
           THEN /\ pc' = "aborted"
                /\ poisoned' = TRUE
                /\ UNCHANGED <<running, output, finalizes>>
           ELSE /\ running' = r.state
                /\ output' = Append(output, [include_header |-> IncludeHeader(start_line),
                                             start |-> start_line,
                                             results |-> r.result[1]])
                /\ finalizes' = finalizes + 1
                /\ pc' = "advance"
                /\ UNCHANGED poisoned
    /\ UNCHANGED <<configVars, start_line, end_line, joined, threadVars, applied,
                   windows, resizes, harnessVars>>

\* run: process_chunk has returned Ok; start_line = end_line.
RunAdvance ==
    /\ pc = "advance"
    /\ start_line' = end_line
    /\ pc' = "loop"
    /\ UNCHANGED <<configVars, end_line, joined, threadVars, running, poisoned,
                   output, historyVars, harnessVars>>

\* run, after the loop: compute_final_stats once more and
\* write_gwas_results(final_stats, output_file, false).
RunTrailingFinalize ==
    /\ pc = "loop"
    /\ ~(start_line < num_lines)
    /\ LET r == ComputeFinalStats(running)
       IN  IF r.panic # ""
           THEN /\ pc' = "aborted"
                /\ poisoned' = TRUE
                /\ UNCHANGED <<running, output, finalizes>>
           ELSE /\ running' = r.state
                /\ output' = Append(output, [include_header |-> FALSE,
                                             start |-> start_line,
                                             results |-> r.result[1]])
                /\ finalizes' = finalizes + 1
                /\ pc' = "done"
                /\ UNCHANGED poisoned
    /\ UNCHANGED <<configVars, start_line, end_line, joined, threadVars, applied,
                   windows, resizes, harnessVars>>

Next ==
    \/ RunClearChunk
    \/ ProcessChunkSpawn
    \/ ReaderSend
    \/ ReaderReadFails
    \/ ReaderReturn
    \/ \E w \in 1..MaxThreads : WorkerRecv(w)
    \/ \E w \in 1..MaxThreads : WorkerUpdate(w)
    \/ ProcessChunkJoinReader
    \/ ProcessChunkDropSender
    \/ ProcessChunkJoinWorker
    \/ ProcessChunkFinalize
    \/ RunAdvance
    \/ RunTrailingFinalize

Spec == Init /\ [][Next]_vars

\* The steps of each thread.  The operating system schedules every thread
\* that can run: the main thread, the reader and each worker keep taking
\* steps while they have one to take.  The steps that compute on the
\* aggregator (update, compute_final_stats) are never blocked once reached;
\* for them the condition is stated on the thread's position, which only
\* that step changes in that way.
MainWaitStep ==
    \/ RunClearChunk
    \/ ProcessChunkSpawn
    \/ ProcessChunkJoinReader
    \/ ProcessChunkDropSender
    \/ ProcessChunkJoinWorker
    \/ RunAdvance

\* The main thread leaves compute_final_stats and write_gwas_results, in
\* process_chunk or after the loop.
MainFinalizeStep ==
    \/ /\ pc = "finalize"
       /\ \E p \in {"advance", "aborted"} : pc' = p
    \/ /\ pc = "loop"
       /\ ~(start_line < num_lines)
       /\ \E p \in {"done", "aborted"} : pc' = p

ReaderStep == ReaderSend \/ ReaderReadFails \/ ReaderReturn

\* Worker w leaves its update call, by returning or by panicking.
WorkerUpdateStep(w) ==
    /\ w \in DOMAIN workers
    /\ workers[w].state = "update"
    /\ \E st \in {"recv", "panicked"} :
          workers' = [workers EXCEPT ![w] = [state |-> st, item |-> None]]

FairSpec ==
    /\ Spec
    /\ WF_vars(MainWaitStep)
    /\ WF_pc(MainFinalizeStep)
    /\ WF_vars(ReaderStep)
    /\ \A w \in 1..MaxThreads :
          WF_vars(WorkerRecv(w)) /\ WF_workers(WorkerUpdateStep(w))

(***************************************************************************)
(* Properties.                                                             *)
(***************************************************************************)
InProcessChunk == pc \in {"join_reader", "drop_sender", "join_workers"}

ThreadsEnded ==
    /\ \A w \in DOMAIN workers : workers[w].state \in {"none", "done"}
    /\ reader.state \in {"none", "done"}
    /\ queue = << >>

RECURSIVE SeqSum(_)
SeqSum(q) == IF q = << >> THEN 0 ELSE Head(q) + SeqSum(Tail(q))

RECURSIVE BagTotalOver(_, _)
BagTotalOver(bag, S) ==
    IF S = {} THEN 0
    ELSE LET f == CHOOSE x \in S : TRUE IN bag[f] + BagTotalOver(bag, S \ {f})

BagTotal(bag) == BagTotalOver(bag, DOMAIN bag)

\* C1: every update of a window has returned, and its thread has been
\* joined, before compute_final_stats is called for that window; a worker
\* only ever updates with a chunk of the window whose compute_final_stats
\* has not run yet, and no thread is alive when clear_chunk is called.
C1_UpdatesThenFinalizeThenNextWindow ==
    /\ pc \in {"loop", "spawn", "finalize", "advance", "done"} => ThreadsEnded
    /\ \A w \in DOMAIN workers :
          workers[w].state = "update" =>
             /\ pc \in {"join_reader", "drop_sender", "join_workers", "aborted"}
             /\ Len(windows) >= 1
             /\ workers[w].item[1].start = windows[Len(windows)].start
             /\ workers[w].item[1].end = windows[Len(windows)].end
             /\ finalizes = Len(windows) - 1
    /\ pc = "finalize" =>
          /\ finalizes = Len(windows) - 1
          /\ running.n_features_seen = SeqSum(applied)

C1_Witness ==
    /\ pc = "finalize"
    /\ Len(windows) >= 2
    /\ num_threads >= 2
    /\ Len(files) >= 2
    /\ running.n_features_seen = Len(files)

\* The messages of phenotype p in the channel or held by a worker.
InFlight(p) ==
    Cardinality({k \in 1..Len(queue) : queue[k].phenotype = p})
    + Cardinality({w \in DOMAIN workers :
                      workers[w].state = "update" /\ workers[w].item[1].phenotype = p})

\* C2: while no update has panicked, every chunk the reader has sent is in
\* the channel, held by one worker or applied once, never twice; when
\* compute_final_stats is called every phenotype has been applied exactly
\* once and the seen counter equals the phenotype count.
C2_EachChunkAppliedOnce ==
    /\ \A p \in 1..Len(files) : applied[p] <= 1
    /\ (~poisoned /\ pc # "spawn") =>
          \A p \in 1..Len(files) :
             InFlight(p) + applied[p] = (IF p < reader.next THEN 1 ELSE 0)
    /\ pc = "finalize" =>
          /\ \A p \in 1..Len(files) : applied[p] = 1
          /\ running.n_features_seen = running.n_features
          /\ running.n_features = Len(files)

C2_Witness ==
    /\ pc = "finalize"
    /\ num_threads >= 2
    /\ Len(files) >= 3
    /\ \A p \in 1..Len(files) : applied[p] = 1

\* C3: in a run that completes, compute_final_stats has returned once per
\* window and one result set has been written per window.
C3_OneFinalizePerWindow ==
    pc = "done" => (finalizes = Len(windows) /\ Len(output) = Len(windows))

\* C4: an update that panics with "Mismatched variant ids" leaves the
\* aggregator as it was before the call.
C4_MismatchLeavesStateUnchanged ==
    [][(last'.op = "update" /\ last'.panic = "Mismatched variant ids")
          => running' = running]_vars

\* C5: compute_final_stats called with the seen counter different from the
\* phenotype count panics and returns nothing; it returns a result set only
\* when the two are equal.
C5_FinalizeRequiresAllPhenotypes ==
    [][last'.op = "compute_final_stats" =>
          /\ (running.n_features_seen # running.n_features =>
                 /\ last'.panic = "Too few features seen"
                 /\ last'.result = None
                 /\ running' = running)
          /\ (last'.result # None => running.n_features_seen = running.n_features)]_vars

C5_Witness ==
    /\ last.op = "compute_final_stats"
    /\ last.panic = "Too few features seen"
    /\ last.result = None
    /\ running.chunksize < MaxWindow
    /\ running.n_features_seen >= 1
    /\ running.n_features_seen < running.n_features

\* C6 as stated: after any sequence of calls the seen counter is between 0
\* and the phenotype count.
C6_SeenNeverExceedsTotal ==
    running.n_features_seen \in 0..running.n_features

\* C6 as amended: the seen counter is the number of update calls that
\* returned since the last clear_chunk (or since construction), so it is
\* within 0..n_features exactly as long as no more than n_features chunks
\* are applied in the window.
C6_SeenCountsUpdatesOfWindow ==
    /\ running.n_features_seen = BagTotal(contrib)
    /\ (BagTotal(contrib) <= running.n_features
           <=> running.n_features_seen \in 0..running.n_features)

C6_Witness ==
    /\ phase = "cleared"
    /\ BagTotal(contrib) = running.n_features + 1
    /\ running.n_features_seen = running.n_features + 1

\* The profiles of the chunks applied since the last clear_chunk.
Contributors == {f \in Profiles : contrib[f] > 0}

SetMin(S) == CHOOSE m \in S : \A x \in S : m <= x

\* C7: after clear_chunk and k >= 1 updates that returned, sample_sizes is
\* the elementwise minimum of the k chunks' sample sizes, in whatever order
\* they were applied.
C7_SampleSizesAreElementwiseMin ==
    (phase = "cleared" /\ BagTotal(contrib) >= 1) =>
        running.sample_sizes =
           [i \in 1..NRows(running.beta) |->
               SetMin({ReadGwasResults(f, 0, NRows(running.beta)).sample_sizes[i] :
                          f \in Contributors})]

C7_Witness ==
    /\ phase = "cleared"
    /\ BagTotal(contrib) >= 2
    /\ last.op = "update"
    /\ \A f \in Contributors :
          running.sample_sizes # ReadGwasResults(f, 0, NRows(running.beta)).sample_sizes

\* C8: two freshly cleared aggregators that applied the same chunks of a
\* window (at most one per phenotype), in any two orders, hold the same
\* beta, gpv, sample_sizes, variant_ids and seen counter.
C8_UpdateCommutes ==
    (phase = "cleared" /\ used = contrib /\ BagTotal(contrib) <= running.n_features) =>
        /\ other.beta = running.beta
        /\ other.gpv = running.gpv
        /\ other.sample_sizes = running.sample_sizes
        /\ other.variant_ids = running.variant_ids
        /\ other.n_features_seen = running.n_features_seen

\* C9: the windows are contiguous from 0, each of 1..chunksize rows, only
\* the last one shorter than chunksize, they end at num_lines when the loop
\* ends, and clear_chunk was called with the window's row count before the
\* window is processed.
C9_WindowsPartitionTheLines ==
    /\ \A k \in 1..Len(windows) :
          /\ windows[k].start = (IF k = 1 THEN 0 ELSE windows[k - 1].end)
          /\ windows[k].end - windows[k].start >= 1
          /\ windows[k].end - windows[k].start <= chunksize
          /\ windows[k].end <= num_lines
          /\ windows[k].cleared = windows[k].end - windows[k].start
          /\ (k < Len(windows) => windows[k].end - windows[k].start = chunksize)
    /\ (pc = "done" \/ (pc = "loop" /\ ~(start_line < num_lines))) =>
          (IF num_lines = 0 THEN windows = << >>
           ELSE Len(windows) >= 1 /\ windows[Len(windows)].end = num_lines)
    /\ (pc = "spawn" \/ InProcessChunk \/ pc = "finalize" \/ pc = "advance") =>
          /\ Len(windows) >= 1
          /\ windows[Len(windows)].start = start_line
          /\ windows[Len(windows)].end = end_line
          /\ running.chunksize = end_line - start_line
          /\ NRows(running.beta) = end_line - start_line

C9_Witness ==
    /\ pc = "done"
    /\ Len(windows) = 2
    /\ windows[1].end - windows[1].start = chunksize
    /\ windows[2].end - windows[2].start < chunksize

\* C10 as stated: with 0 < num_lines < chunksize there is one window and no
\* clear_chunk call takes the resize branch.
C10_OneWindowNoResize ==
    (0 < num_lines /\ num_lines < chunksize) =>
        /\ Len(windows) <= 1
        /\ (pc = "done" => Len(windows) = 1)
        /\ resizes = 0

\* C10 as amended: with 0 < num_lines < chunksize there is one window, and
\* its clear_chunk call is the one call that takes the resize branch: the
\* buffers constructed with chunksize rows are reallocated to num_lines rows.
C10_OneWindowOneResize ==
    (0 < num_lines /\ num_lines < chunksize) =>
        /\ Len(windows) <= 1
        /\ (pc = "done" => Len(windows) = 1)
        /\ resizes = Len(windows)
        /\ (Len(windows) = 1 =>
               /\ windows[1] = [start |-> 0, end |-> num_lines, cleared |-> num_lines]
               /\ NRows(running.beta) = num_lines
               /\ running.chunksize = num_lines)
        /\ (Len(windows) = 0 => NRows(running.beta) = chunksize)

C10_Witness ==
    /\ 0 < num_lines
    /\ num_lines < chunksize
    /\ pc = "done"
    /\ resizes = 1

\* The lengths of the columns of an IGwasResults.
ColumnLengths(res) ==
    { Len(res.projection_ids), Len(res.variant_ids), Len(res.beta_values),
      Len(res.se_values), Len(res.t_stat_values), Len(res.p_values),
      Len(res.sample_sizes) }

\* Whether the last window started is the one that ends at num_lines.
FinalWindowStarted ==
    Len(windows) >= 1 /\ windows[Len(windows)].end = num_lines

\* C11: with num_lines > chunksize and num_lines not a multiple of
\* chunksize, the one clear_chunk call that takes the resize branch is the
\* final window's, it reallocates to num_lines % chunksize rows, and every
\* result set computed for that window has (num_lines % chunksize) *
\* n_projections entries in each column (the earlier ones chunksize *
\* n_projections).
C11_ResizeOnFinalWindowOnly ==
    (num_lines > chunksize /\ num_lines % chunksize # 0) =>
        /\ resizes = (IF FinalWindowStarted THEN 1 ELSE 0)
        /\ NRows(running.beta) =
              (IF FinalWindowStarted THEN num_lines % chunksize ELSE chunksize)
        /\ running.chunksize = NRows(running.beta)
        /\ Len(running.gpv) = NRows(running.beta)
        /\ \A k \in 1..Len(output) :
              ColumnLengths(output[k].results) =
                 { (IF output[k].start + chunksize > num_lines
                    THEN num_lines % chunksize ELSE chunksize) * NumProjections }

C11_Witness ==
    /\ num_lines > chunksize
    /\ num_lines % chunksize # 0
    /\ resizes = 1
    /\ pc = "advance"
    /\ Len(output) = Len(windows)
    /\ Len(output) >= 2
    /\ output[Len(output)].start + chunksize > num_lines
    /\ Len(output[Len(output)].results.beta_values) =
          (num_lines % chunksize) * NumProjections

\* C12: once anything has been written, the first write_gwas_results call
\* is the first window's (start_line = 0) and is the only one with
\* include_header set: no later window's write and not the write after the
\* loop emits a header.
C12_HeaderWrittenOnceFirst ==
    Len(output) >= 1 =>
        /\ output[1].include_header
        /\ output[1].start = 0
        /\ Len(windows) >= 1
        /\ Len(output[1].results.beta_values) = windows[1].cleared * NumProjections
        /\ \A k \in 2..Len(output) :
              /\ ~output[k].include_header
              /\ output[k].start > 0

C12_Witness ==
    /\ pc = "done"
    /\ Len(windows) >= 2
    /\ Len(output) = Len(windows) + 1
    /\ output[1].include_header
    /\ ~output[Len(output)].include_header

\* An error has occurred while processing the current window: the reader
\* panicked on a failed read, or a worker panicked in update or on the
\* poisoned mutex.
WindowError ==
    \/ reader.state = "panicked"
    \/ \E w \in DOMAIN workers : workers[w].state = "panicked"

\* C13: once a read has failed or an update has panicked in window k, the
\* main thread never reaches compute_final_stats: it is still joining or
\* has aborted, compute_final_stats has returned and write_gwas_results has
\* been called for the windows before k only, and from then on no step
\* writes, starts a window, advances start_line or leaves the aborted state.
C13_ErrorAbortsRun ==
    /\ [](WindowError =>
            /\ pc \in {"join_reader", "drop_sender", "join_workers", "aborted"}
            /\ finalizes = Len(windows) - 1
            /\ Len(output) = Len(windows) - 1
            /\ \A k \in 1..Len(output) : output[k].start = windows[k].start)
    /\ [][WindowError =>
            /\ WindowError'
            /\ output' = output
            /\ windows' = windows
            /\ finalizes' = finalizes
            /\ start_line' = start_line
            /\ (pc = "aborted" => pc' = "aborted")]_vars

C13_Witness ==
    /\ pc = "aborted"
    /\ \E w \in DOMAIN workers : workers[w].state = "panicked"
    /\ poisoned
    /\ reader.state = "done"
    /\ Len(windows) >= 2
    /\ Len(output) = Len(windows) - 1
    /\ finalizes = Len(windows) - 1

\* C14: a compute_final_stats call that returns gives columns of
\* w * p entries each (w the rows of the window, p the projections), and
\* entry r (0-based) carries projection id r div w, variant id r mod w of
\* the sequence the aggregator holds, the beta accumulated for that variant
\* and projection, and that variant's minimum sample size.
C14_ProjectionMajorLayout ==
    (last.op = "compute_final_stats" /\ last.result # None) =>
        LET res == last.result[1]
            w   == NRows(running.beta)
            p   == running.n_projections
        IN  /\ ColumnLengths(res) = {w * p}
            /\ \A r \in 0..(w * p - 1) :
                  /\ res.projection_ids[r + 1] = running.projection_ids[(r \div w) + 1]
                  /\ res.variant_ids[r + 1] = running.variant_ids[1][(r % w) + 1]
                  /\ res.beta_values[r + 1] = running.beta[(r % w) + 1][(r \div w) + 1]
                  /\ res.sample_sizes[r + 1] = running.sample_sizes[(r % w) + 1]
                  /\ res.se_values[r + 1][4] = res.beta_values[r + 1]
                  /\ res.t_stat_values[r + 1][2] = res.beta_values[r + 1]

C14_Witness ==
    /\ last.op = "compute_final_stats"
    /\ last.result # None
    /\ NRows(running.beta) = 2
    /\ running.n_features >= 2
    /\ Cardinality({last.result[1].beta_values[r] : r \in 1..(2 * NumProjections)})
          = 2 * NumProjections
    /\ last.result[1].sample_sizes[1] # last.result[1].sample_sizes[2]

\* The aggregator after update has been called with the chunks of the first
\* k sources, in the order of gwas_result_files, for lines [start, end).
RECURSIVE ApplyInFileOrder(_, _, _, _)
ApplyInFileOrder(s, k, start, end) ==
    IF k = 0 THEN s
    ELSE Update(ApplyInFileOrder(s, k - 1, start, end),
                ReadGwasResults(files[k], start, end)).state

\* The result set of window [start, end) when the phenotypes are applied in
\* the order the reader sends them, as a run with one worker does.
FileOrderResult(start, end) ==
    LET fresh == ClearChunk(New(ProjectionMatrix(Len(files)), CovarianceMatrix(Len(files)),
                                NumCovar, chunksize), end - start)
    IN  ComputeFinalStats(ApplyInFileOrder(fresh, Len(files), start, end)).result[1]

\* C15: the result set written for each window is the one a run with one
\* worker writes for it, whatever the number of workers and the order in
\* which they apply the phenotypes.
C15_OutputIndependentOfSchedule ==
    \A k \in 1..Min(Len(output), Len(windows)) :
        output[k].results = FileOrderResult(windows[k].start, windows[k].end)

\* C16: a compute_final_stats call that directly follows one that returned
\* returns the same result set and leaves the aggregator as it was.
C16_FinalizeIdempotent ==
    [][(last.op = "compute_final_stats" /\ last.result # None
          /\ last'.op = "compute_final_stats") =>
             /\ last'.result = last.result
             /\ running' = running]_vars

\* The buffers of the aggregator are n rows of zeros and the seen counter
\* is 0.
Cleared(s, n) ==
    /\ s.beta = ZerosMat(n, NumProjections, F32Zero)
    /\ s.gpv = ZerosVec(n, F32Zero)
    /\ s.sample_sizes = ZerosVec(n, 0)
    /\ s.chunksize = n
    /\ s.n_features_seen = 0

\* The fields the constructor sets from the projection and covariance
\* matrices are those of s.
SameMatrices(s, t) ==
    /\ t.proj = s.proj
    /\ t.cov = s.cov
    /\ t.fpv = s.fpv
    /\ t.phenotype_id_to_idx = s.phenotype_id_to_idx
    /\ t.n_covar = s.n_covar
    /\ t.n_features = s.n_features
    /\ t.n_projections = s.n_projections
    /\ t.projection_ids = s.projection_ids

\* C17 as stated: after clear_chunk(n) the buffers are n rows of zeros, the
\* seen counter is 0 and no variant-id sequence is held.
C17_ClearDiscardsVariantIds ==
    last.op = "clear_chunk" =>
        /\ Cleared(running, last.arg)
        /\ running.variant_ids = None

\* C17 as amended: clear_chunk(n) leaves n rows of zeros in beta, gpv and
\* sample_sizes and a seen counter of 0, changes neither the matrices nor
\* the variant-id sequence held; the first update after it replaces the
\* variant ids and the sample sizes by the chunk's and makes beta and gpv
\* the chunk's sums, so nothing of the window before is left.
C17_ClearKeepsIdsUntilFirstUpdate ==
    /\ [][last'.op = "clear_chunk" =>
             /\ Cleared(running', last'.arg)
             /\ SameMatrices(running, running')
             /\ running'.variant_ids = running.variant_ids]_vars
    /\ [][(last'.op = "update" /\ running.n_features_seen = 0) =>
             \E f \in Profiles :
                LET chunk == ReadGwasResults(f, 0, NRows(running.beta))
                IN  /\ contrib' = [contrib EXCEPT ![f] = @ + 1]
                    /\ last'.panic = ""
                    /\ running'.variant_ids = Some(chunk.variant_ids)
                    /\ running'.sample_sizes = chunk.sample_sizes
                    /\ running'.beta = chunk.beta_update
                    /\ running'.gpv = chunk.gpv_update
                    /\ running'.n_features_seen = 1
                    /\ SameMatrices(running, running')]_vars
    /\ [](running.n_features_seen = 0 => Cleared(running, NRows(running.beta)))

C17_Witness ==
    /\ last.op = "clear_chunk"
    /\ last.arg < MaxWindow
    /\ running.variant_ids # None
    /\ Len(running.variant_ids[1]) # last.arg
    /\ Cleared(running, last.arg)

\* C18: the channel only ever holds chunks of the window being processed,
\* at most one per phenotype and in the order of the sources, and it is
\* empty when compute_final_stats is called, when a window starts and when
\* the run is over.
C18_QueueHoldsCurrentWindowOnly ==
    /\ \A k \in 1..Len(queue) :
          /\ queue[k].start = start_line
          /\ queue[k].end = end_line
          /\ Len(windows) >= 1
          /\ queue[k].start = windows[Len(windows)].start
          /\ queue[k].end = windows[Len(windows)].end
          /\ queue[k].phenotype \in 1..Len(files)
          /\ \A j \in 1..(k - 1) : queue[j].phenotype < queue[k].phenotype
    /\ Len(queue) <= Len(files)
    /\ queue # << >> => pc \in {"join_reader", "drop_sender", "join_workers", "aborted"}
    /\ pc \in {"loop", "spawn", "finalize", "advance", "done"} => queue = << >>

C18_Witness ==
    /\ Len(queue) = Len(files)
    /\ Len(files) >= 3
    /\ Len(windows) >= 2
    /\ pc = "join_reader"

\* run has returned or the main thread has panicked.
Terminated == pc \in {"done", "aborted"}

\* C19: with every thread scheduled fairly the run ends; every window whose
\* joins have begun gets the main thread past them (to compute_final_stats
\* or to an abort), start_line only ever grows, and a run with at least one
\* line whose reads succeed and whose variant ids agree ends normally.
C19_RunTerminates ==
    /\ <>Terminated
    /\ (pc = "join_workers") ~> (pc \in {"finalize", "aborted"})
    /\ [][start_line' # start_line =>
             (start_line' > start_line /\ start_line' <= num_lines)]_vars
    /\ [](pc = "aborted" => (WindowError \/ num_lines = 0))

C19_Witness ==
    /\ pc = "done"
    /\ Len(windows) >= 2
    /\ num_threads >= 2
    /\ Len(files) >= 2
    /\ start_line = num_lines
    /\ ThreadsEnded
    /\ senders = {}

\* The variant ids of phenotype p's chunk for the last window started.
ChunkVariantIds(p) ==
    ReadGwasResults(files[p], windows[Len(windows)].start,
                    windows[Len(windows)].end).variant_ids

\* C20: every phenotype whose update has returned in the window carried
\* the variant-id sequence the aggregator holds, the one adopted from the
\* first update of the window, whichever phenotype that was; when
\* compute_final_stats is called all the phenotypes' chunks carried it.
C20_ContributorsShareVariantIds ==
    /\ \A p \in 1..Len(files) :
          applied[p] >= 1 =>
             /\ Len(windows) >= 1
             /\ running.variant_ids = Some(ChunkVariantIds(p))
    /\ pc = "finalize" =>
          \A p, q \in 1..Len(files) : ChunkVariantIds(p) = ChunkVariantIds(q)

C20_Witness ==
    /\ poisoned
    /\ Len(files) >= 3
    /\ applied[1] = 0
    /\ SeqSum(applied) >= 2
    /\ running.variant_ids # Some(ChunkVariantIds(1))
    /\ running.variant_ids = Some(ChunkVariantIds(2))

====
